---------------------------- MODULE Spec2Model ----------------------------
(*************************************************************************)
(* Model of the POSIFLEX PP-700II thermal printer driver, Pos_Printer.cpp *)
(*                                                                       *)
(* The driver object is a record of its fields; every method is an       *)
(* operator from the record before the call to the record after it, so   *)
(* that a method calling another method is an operator applied to the    *)
(* result of another.  Two extra fields record what a call did to the    *)
(* outside: out, the bytes it wrote to the stream, and d, the pacing     *)
(* delay computed by write() (the local `unsigned long d`).              *)
(*************************************************************************)
EXTENDS Integers, Sequences, FiniteSets, TLC

VARIABLES
    firmware,        \* PRINTER_FIRMWARE of the build (#if at 217, 261, 308, 377, 638, 649)
    dtrPin,          \* constructor argument dtr
    begun,           \* begin() has returned at least once
    printMode, prevByte, column, maxColumn, charHeight, lineSpacing,
    barcodeHeight, maxChunkHeight, dtrEnabled, dotPrintTime, dotFeedTime,
    out,             \* bytes written to the stream by the last call
    d,               \* pacing delay computed by the write()s of the last call
    lastOp,          \* the last public call: [op |-> name, arg |-> argument]
    nText, plain, charged,  \* the run of text written since the last other call:
                            \* write() calls, whether all of them were neither LF
                            \* nor CR, and the sum of the delays computed
    onLine,          \* characters on the printer's current line in that run
    \* printBitmap_ada(w, h, bitmap) in progress: position, arguments, locals
    bmPc, bmW, bmH, bmBitmap, rowStart, bmI,
    chunks,          \* the <<chunkHeight, rowBytesClipped>> of each header it issued
    \* hasPaper() in progress: position, loop counter, local status
    hpPc, hpI, status,
    rx,              \* bytes the printer has sent that the stream has not yet read
    polls, waits,    \* stream->available() calls and delay(100) calls of hasPaper()
    hpResult,        \* what hasPaper() returned
    \* printBitmap_ada(w, h, fromStream) and printBitmap_ada(fromStream) in
    \* progress (w, h, rowStart and chunks are kept in bmW, bmH, rowStart, chunks)
    stPc,            \* position
    stX, stY, stI,   \* locals x, y and the countdown i of the discard loop
    stChunkHeight,   \* local chunkHeight
    hdr,             \* what the four header reads returned
    srcData,         \* the bytes the source stream carries, in order
    delivered,       \* how many of them have arrived at fromStream so far
    consumed,        \* how many of them fromStream->read() has handed out
    spins            \* reads that found nothing (fromStream->read() < 0)

devVars   == <<printMode, prevByte, column, maxColumn, charHeight, lineSpacing,
               barcodeHeight, maxChunkHeight, dtrEnabled, dotPrintTime, dotFeedTime>>
buildVars == <<firmware, dtrPin>>
textVars  == <<nText, plain, charged, onLine>>
bitmapVars == <<bmPc, bmW, bmH, bmBitmap, rowStart, bmI, chunks>>
paperVars == <<hpPc, hpI, status, rx, polls, waits, hpResult>>
streamVars == <<stPc, stX, stY, stI, stChunkHeight, hdr, srcData, delivered, consumed, spins>>
vars      == <<buildVars, begun, devVars, out, d, lastOp, textVars, bitmapVars, paperVars,
               streamVars>>

---------------------------------------------------------------------------
(* Program constants *)

BAUDRATE  == 19200
ASCII_TAB == 9
ASCII_LF  == 10
ASCII_FF  == 12
ASCII_CR  == 13
ASCII_DC2 == 18
ASCII_ESC == 27
ASCII_FS  == 28
ASCII_GS  == 29
BYTE_TIME == ((11 * 1000000) + (BAUDRATE \div 2)) \div BAUDRATE

INVERSE_MASK       == 2
UPDOWN_MASK        == 4
BOLD_MASK          == 8
DOUBLE_HEIGHT_MASK == 16
DOUBLE_WIDTH_MASK  == 32
STRIKE_MASK        == 64

\* Declared in Pos_Printer.h, which is not part of the sources at hand; the
\* values are those of the charset / code page tables of the command set.
CHARSET_DENMARK1    == 4
CODEPAGE_ISO_8859_1 == 23

---------------------------------------------------------------------------
(* Machine arithmetic *)

RECURSIVE BitAnd(_, _)
BitAnd(a, b) ==
    IF a = 0 \/ b = 0 THEN 0
    ELSE IF a = -1 THEN b
    ELSE IF b = -1 THEN a
    ELSE (IF a % 2 = 1 /\ b % 2 = 1 THEN 1 ELSE 0) + 2 * BitAnd(a \div 2, b \div 2)

\* a | b and a & ~b on one byte
BitOr(a, b)    == a + b - BitAnd(a, b)
BitClear(a, b) == a - BitAnd(a, b)

u8(x) == x % 256

toupper(c) == IF c \in 97..122 THEN c - 32 ELSE c

---------------------------------------------------------------------------
(* The object and its methods *)

Cur == [printMode |-> printMode, prevByte |-> prevByte, column |-> column,
        maxColumn |-> maxColumn, charHeight |-> charHeight,
        lineSpacing |-> lineSpacing, barcodeHeight |-> barcodeHeight,
        maxChunkHeight |-> maxChunkHeight, dtrEnabled |-> dtrEnabled,
        dotPrintTime |-> dotPrintTime, dotFeedTime |-> dotFeedTime,
        out |-> <<>>, d |-> 0]

\* writeBytes(a), (a,b), (a,b,c), (a,b,c,d), (a,...,h): stream->write of each
\* argument, each argument a uint8_t
Bytes(bs) == [k \in 1..Len(bs) |-> u8(bs[k])]

writeBytes(s, bs) == [s EXCEPT !.out = @ \o Bytes(bs)]

setTimes(s, p, f) == [s EXCEPT !.dotPrintTime = p, !.dotFeedTime = f]

\* (mutation of SettleTime: the previous byte is not looked at)
SettleTime_PrintOnly(s) ==
    (s.charHeight * s.dotPrintTime) + (s.lineSpacing * s.dotFeedTime)

\* settle time of a newline or wrap
SettleTime(s) ==
    IF s.prevByte = ASCII_LF
    THEN (s.charHeight + s.lineSpacing) * s.dotFeedTime
    ELSE (s.charHeight * s.dotPrintTime) + (s.lineSpacing * s.dotFeedTime)

\* the byte write() leaves out: the test is `c != 0x13`
Stripped(c) == c = 19

\* (mutation of write: only a newline ends the line, a full line does not)
write_NoWrap(s, c) ==
    IF ~Stripped(c)
    THEN LET wrap == (c = ASCII_LF)
         IN  [s EXCEPT !.out      = Append(@, c),
                       !.d        = @ + BYTE_TIME + (IF wrap THEN SettleTime(s) ELSE 0),
                       !.column   = IF wrap THEN 0 ELSE @ + 1,
                       !.prevByte = IF wrap THEN ASCII_LF ELSE c]
    ELSE s

write(s, c) ==
    IF ~Stripped(c)
    THEN LET wrap == (c = ASCII_LF) \/ (s.column = s.maxColumn)
         IN  [s EXCEPT !.out      = Append(@, c),
                       !.d        = @ + BYTE_TIME + (IF wrap THEN SettleTime(s) ELSE 0),
                       !.column   = IF wrap THEN 0 ELSE @ + 1,
                       !.prevByte = IF wrap THEN ASCII_LF ELSE c]
    ELSE s

reset(s, fw) ==
    LET s1 == [writeBytes(s, <<ASCII_ESC, 64>>) EXCEPT
                   !.prevByte = ASCII_LF, !.column = 0, !.maxColumn = 32,
                   !.charHeight = 24, !.lineSpacing = 6, !.barcodeHeight = 50]
    IN  IF fw >= 264
        THEN writeBytes(writeBytes(s1, <<ASCII_ESC, 68>>), <<4, 8, 12, 16>>)
        ELSE s1

setBarcodeHeight(s, val) ==
    LET v == IF val < 1 THEN 1 ELSE val
    IN  writeBytes([s EXCEPT !.barcodeHeight = v], <<ASCII_GS, 104, v>>)

writePrintMode(s) == writeBytes(s, <<ASCII_ESC, 33, s.printMode>>)

Geometry(s) ==
    [s EXCEPT !.charHeight = IF BitAnd(s.printMode, DOUBLE_HEIGHT_MASK) # 0 THEN 48 ELSE 24,
              !.maxColumn  = IF BitAnd(s.printMode, DOUBLE_WIDTH_MASK)  # 0 THEN 16 ELSE 32]

setPrintMode(s, mask) ==
    Geometry(writePrintMode([s EXCEPT !.printMode = BitOr(@, mask)]))

unsetPrintMode(s, mask) ==
    Geometry(writePrintMode([s EXCEPT !.printMode = BitClear(@, mask)]))

normal(s) == writePrintMode([s EXCEPT !.printMode = 0])

inverseOn(s, fw) ==
    IF fw >= 268 THEN writeBytes(s, <<ASCII_GS, 66, 1>>) ELSE setPrintMode(s, INVERSE_MASK)

inverseOff(s, fw) ==
    IF fw >= 268 THEN writeBytes(s, <<ASCII_GS, 66, 0>>) ELSE unsetPrintMode(s, INVERSE_MASK)

upsideDownOn(s)    == setPrintMode(s, UPDOWN_MASK)
upsideDownOff(s)   == unsetPrintMode(s, UPDOWN_MASK)
doubleHeightOn(s)  == setPrintMode(s, DOUBLE_HEIGHT_MASK)
doubleHeightOff(s) == unsetPrintMode(s, DOUBLE_HEIGHT_MASK)
doubleWidthOn(s)   == setPrintMode(s, DOUBLE_WIDTH_MASK)
doubleWidthOff(s)  == unsetPrintMode(s, DOUBLE_WIDTH_MASK)
strikeOn(s)        == setPrintMode(s, STRIKE_MASK)
strikeOff(s)       == unsetPrintMode(s, STRIKE_MASK)
boldOn(s)          == setPrintMode(s, BOLD_MASK)
boldOff(s)         == unsetPrintMode(s, BOLD_MASK)

justify(s, value) ==
    LET u   == toupper(value)
        pos == IF u = 67 THEN 1 ELSE IF u = 82 THEN 2 ELSE 0
    IN  writeBytes(s, <<ASCII_ESC, 97, pos>>)

\* while(x--) write('\n')
RECURSIVE FeedManually(_, _)
FeedManually(s, x) == IF x = 0 THEN s ELSE FeedManually(write(s, ASCII_LF), x - 1)

\* (mutation of feed: the feed-by-lines command leaves the cursor state alone)
feed_KeepsCursor(s, x, fw) ==
    IF fw >= 264
    THEN writeBytes(s, <<ASCII_ESC, 100, x>>)
    ELSE FeedManually(s, x)

feed(s, x, fw) ==
    IF fw >= 264
    THEN [writeBytes(s, <<ASCII_ESC, 100, x>>) EXCEPT !.prevByte = ASCII_LF, !.column = 0]
    ELSE FeedManually(s, x)

feedRows(s, rows) ==
    [writeBytes(s, <<ASCII_ESC, 74, rows>>) EXCEPT !.prevByte = ASCII_LF, !.column = 0]

setSize(s, value) ==
    LET u    == toupper(value)
        size == IF u = 77 THEN 1  ELSE IF u = 76 THEN 17 ELSE 0
        ch   == IF u = 77 THEN 48 ELSE IF u = 76 THEN 48 ELSE 24
        mc   == IF u = 77 THEN 32 ELSE IF u = 76 THEN 16 ELSE 32
    IN  [writeBytes([s EXCEPT !.charHeight = ch, !.maxColumn = mc],
                    <<ASCII_GS, 33, size>>) EXCEPT !.prevByte = ASCII_LF]

\* (mutation of underlineOn: the weight is not clamped)
underlineOn_NoClamp(s, weight) == writeBytes(s, <<ASCII_ESC, 45, weight>>)

underlineOn(s, weight) ==
    writeBytes(s, <<ASCII_ESC, 45, IF weight > 2 THEN 2 ELSE weight>>)

underlineOff(s) == writeBytes(s, <<ASCII_ESC, 45, 0>>)

online(s)  == writeBytes(s, <<ASCII_ESC, 61, 1>>)
offline(s) == writeBytes(s, <<ASCII_ESC, 61, 0>>)

wake(s, fw) ==
    LET s1 == writeBytes(s, <<255>>)
    IN  IF fw >= 264
        THEN writeBytes(s1, <<ASCII_ESC, 56, 0, 0>>)
        ELSE writeBytes(s1, <<0, 0, 0, 0, 0, 0, 0, 0, 0, 0>>)

setLineHeight(s, val) ==
    LET v == IF val < 24 THEN 24 ELSE val
    IN  writeBytes([s EXCEPT !.lineSpacing = v - 24], <<ASCII_ESC, 51, v>>)

setMaxChunkHeight(s, val) == [s EXCEPT !.maxChunkHeight = val]

setCharset(s, val)  == writeBytes(s, <<ASCII_ESC, 82,  IF val > 15 THEN 15 ELSE val>>)
setCodePage(s, val) == writeBytes(s, <<ASCII_ESC, 116, IF val > 47 THEN 47 ELSE val>>)

tab(s) ==
    [writeBytes(s, <<ASCII_TAB>>) EXCEPT !.column = BitAnd(s.column + 4, 252)]

setDefault(s, fw) ==
    LET s1  == online(s)
        s2  == justify(s1, 76)
        s3  == inverseOff(s2, fw)
        s4  == doubleHeightOff(s3)
        s5  == setLineHeight(s4, 30)
        s6  == boldOff(s5)
        s7  == underlineOff(s6)
        s8  == setBarcodeHeight(s7, 50)
        s9  == setSize(s8, 115)
        s10 == setCharset(s9, CHARSET_DENMARK1)
    IN  setCodePage(s10, CODEPAGE_ISO_8859_1)

begin(s, heatTime, fw, pin) ==
    LET s1 == reset(wake(s, fw), fw)
        s2 == writeBytes(writeBytes(s1, <<ASCII_ESC, 55>>), <<11, heatTime, 40>>)
        s3 == IF pin < 255
              THEN [writeBytes(s2, <<ASCII_GS, 97, 32>>) EXCEPT !.dtrEnabled = TRUE]
              ELSE s2
        s4 == [s3 EXCEPT !.dotPrintTime = 1, !.dotFeedTime = 1, !.maxChunkHeight = 255]
    IN  setDefault(s4, fw)

\* the caller's image buffer: byte i of image number `bitmap`
Pixel(bitmap, i) == (bitmap * (i + 1) + (i \div 3)) % 256

\* bytes lo .. lo + n - 1 of the image
PixelRun(bitmap, lo, n) == [k \in 1..n |-> Pixel(bitmap, lo + k - 1)]

printBitmap(s, w, h, bitmap) ==
    LET rowBytes == (w + 7) \div 8
        s1 == writeBytes(s, <<ASCII_GS, 118, 48, 0, rowBytes % 256, rowBytes \div 256,
                              h % 256, h \div 256>>)
        n  == IF h > 0 THEN h * rowBytes ELSE 0
    IN  [writeBytes(s1, PixelRun(bitmap, 0, n)) EXCEPT !.prevByte = ASCII_LF]

\* defineNVBitmap(w, h, bitmap): FS q 1, the declared size, then colBytes
\* passes of the loop for(x=0; x < w; x++, i++)
defineNVBitmap(s, w, h, bitmap) ==
    LET rowBytes == w \div 8
        colBytes == (h + 7) \div 8
        s1 == writeBytes(s, <<ASCII_FS, 113, 1>>)
        s2 == writeBytes(s1, <<rowBytes % 256, rowBytes \div 256,
                               colBytes % 256, colBytes \div 256>>)
        n  == IF colBytes > 0 /\ w > 0 THEN colBytes * w ELSE 0
    IN  writeBytes(s2, PixelRun(bitmap, 0, n))

\* the declared size and the data of one image of the two-image variant:
\* colBytes passes of the loop for(x=0; x < rowBytes * 8; x++, i++)
NVImage(s, w, h, bitmap) ==
    LET rowBytes == w \div 8
        colBytes == (h + 7) \div 8
        s1 == writeBytes(s, <<rowBytes % 256, rowBytes \div 256,
                              colBytes % 256, colBytes \div 256>>)
        n  == IF colBytes > 0 /\ rowBytes > 0 THEN colBytes * (rowBytes * 8) ELSE 0
    IN  writeBytes(s1, PixelRun(bitmap, 0, n))

\* defineNVBitmap(w1, h1, bitmap1, w2, h2, bitmap2)
defineNVBitmap2(s, w1, h1, bitmap1, w2, h2, bitmap2) ==
    NVImage(NVImage(writeBytes(s, <<ASCII_FS, 113, 2>>), w1, h1, bitmap1), w2, h2, bitmap2)

\* locals of printBitmap_ada
RowBytes(w)        == (w + 7) \div 8
RowBytesClipped(w) == IF RowBytes(w) >= 48 THEN 48 ELSE RowBytes(w)

\* (mutation of ChunkHeightLimit: the estimate is not capped by maxChunkHeight)
ChunkHeightLimit_NoCap(s, w) ==
    IF s.dtrEnabled THEN 255 ELSE 256 \div RowBytesClipped(w)

ChunkHeightLimit(s, w) ==
    IF s.dtrEnabled THEN 255
    ELSE LET l == 256 \div RowBytesClipped(w)
         IN  IF l > s.maxChunkHeight THEN s.maxChunkHeight
             ELSE IF l < 1 THEN 1 ELSE l

\* one pass of the outer loop: the chunk header, then chunkHeight rows of
\* rowBytesClipped bytes each, the rest of every source row skipped
\* (mutation of ChunkHeight: the last chunk is not cut to the rows left)
ChunkHeight_NoRemainder(h, start, limit) == limit

ChunkHeight(h, start, limit) == IF h - start > limit THEN limit ELSE h - start

\* (mutation of ChunkBytes: the rest of a clipped source row is not skipped)
ChunkBytes_NoSkip(w, bitmap, i, chunkHeight) ==
    LET rbc == RowBytesClipped(w)
        n   == IF chunkHeight > 0 THEN chunkHeight * rbc ELSE 0
    IN  [k \in 1..n |-> Pixel(bitmap, i + (k - 1))]

ChunkBytes(w, bitmap, i, chunkHeight) ==
    LET rbc == RowBytesClipped(w)
        n   == IF chunkHeight > 0 THEN chunkHeight * rbc ELSE 0
    IN  [k \in 1..n |-> Pixel(bitmap, i + ((k - 1) \div rbc) * RowBytes(w) + ((k - 1) % rbc))]

\* the outer loop of printBitmap_ada(w, h, bitmap, fromProgMem) from rowStart
\* and i on; it is left only when rowStart >= h
RECURSIVE ChunkLoop(_, _, _, _, _, _)
ChunkLoop(s, w, h, bitmap, rs, i) ==
    IF rs < h
    THEN LET limit       == ChunkHeightLimit(s, w)
             chunkHeight == ChunkHeight(h, rs, limit)
             s1 == writeBytes(s, <<ASCII_ESC, 42, chunkHeight, RowBytesClipped(w)>>)
             s2 == [s1 EXCEPT !.out = @ \o ChunkBytes(w, bitmap, i, chunkHeight)]
         IN  ChunkLoop(s2, w, h, bitmap, rs + limit, i + chunkHeight * RowBytes(w))
    ELSE s

\* the whole call, where it returns
printBitmap_ada(s, w, h, bitmap) ==
    [ChunkLoop(s, w, h, bitmap, 0, 0) EXCEPT !.prevByte = ASCII_LF]

\* (mutation of DiscardCount: nothing of the source row is discarded)
DiscardCount_None(w) == 0

\* printBitmap_ada(w, h, fromStream): bytes of each source row read and not
\* sent, for(i = rowBytes - rowBytesClipped; i > 0; i--)
DiscardCount(w) == RowBytes(w) - RowBytesClipped(w)

\* printBitmap_ada(fromStream): (fromStream->read() << 8) + tmp as a uint16_t,
\* tmp the uint8_t of the read before.  A read that found nothing returns -1,
\* and the left shift of a negative int is undefined: the usual build shifts
\* the two's-complement pattern, another may give 0.
HeaderWord(lo, hi) ==
    IF hi >= 0
    THEN {((hi * 256) + u8(lo)) % 65536}
    ELSE {((hi * 256) + u8(lo)) % 65536, u8(lo)}

\* The printer, as far as the driver's column is meant to follow it: a
\* newline starts a new line, any other byte is a character that takes the
\* next place on the line, on a new line once the line holds width characters.
RECURSIVE PrinterLine(_, _, _)
PrinterLine(n, bytes, width) ==
    IF bytes = <<>> THEN n
    ELSE PrinterLine(IF Head(bytes) = ASCII_LF THEN 0
                     ELSE IF n >= width THEN 1
                     ELSE n + 1,
                     Tail(bytes), width)

\* (mutation of PaperPresent: no answer is read as status 0)
PaperPresent_NoAnswerIsZero(st) == IF st = -1 THEN TRUE ELSE BitAnd(st, 4) = 0

\* hasPaper(): return !(status & 0b00000100)
PaperPresent(st) == BitAnd(st, 4) = 0

printBarcode(s, text, type, fw) ==
    LET s1 == feed(s, 1, fw)
        s2 == writeBytes(s1, <<ASCII_GS, 72, 2>>)
        s3 == writeBytes(s2, <<ASCII_GS, 119, 3>>)
        s4 == writeBytes(s3, <<ASCII_GS, 107, type>>)
        len == IF Len(text) > 255 THEN 255 ELSE Len(text)
        s5 == IF fw >= 264
              THEN writeBytes(writeBytes(s4, <<len>>), SubSeq(text, 1, len))
              ELSE writeBytes(s4, text \o <<0>>)
    IN  [s5 EXCEPT !.prevByte = ASCII_LF]

reprintQRcode(s) ==
    [writeBytes(writeBytes(s, <<ASCII_GS, 40, 107, 3>>), <<0, 49, 81, 48>>)
         EXCEPT !.prevByte = ASCII_LF]

printQRcode(s, text, errCorrect, moduleSize, model) ==
    LET m   == IF model < 49 \/ model > 51 THEN 50 ELSE model
        ms  == IF moduleSize < 1 \/ moduleSize > 16 THEN 3 ELSE moduleSize
        ec  == IF errCorrect < 48 \/ errCorrect > 51 THEN 48 ELSE errCorrect
        len == Len(text) % 65536
        s1  == writeBytes(s,  <<ASCII_GS, 40, 107, 4>>)
        s2  == writeBytes(s1, <<0, 49, 65, m>>)
        s3  == writeBytes(s2, <<0>>)
        s4  == writeBytes(s3, <<ASCII_GS, 40, 107>>)
        s5  == writeBytes(s4, <<3, 0, 49, 67>>)
        s6  == writeBytes(s5, <<ms>>)
        s7  == writeBytes(s6, <<ASCII_GS, 40, 107>>)
        s8  == writeBytes(s7, <<3, 0, 49, 69>>)
        s9  == writeBytes(s8, <<ec>>)
        s10 == writeBytes(s9, <<ASCII_GS, 40, 107>>)
        s11 == writeBytes(s10, <<(len + 3) % 256, (len + 3) \div 256>>)
        s12 == writeBytes(s11, <<49, 80, 48>>)
        s13 == writeBytes(s12, SubSeq(text, 1, len))
    IN  reprintQRcode(s13)

---------------------------------------------------------------------------
(* Bounds and input sets *)

\* one build below both firmware thresholds, one between them, one above
Firmwares  == {263, 264, 268}
\* a configured ready-signal pin, and 255 for none
DtrPins    == {2, 255}
\* what the never-initialised printMode may hold when begin() first runs
UninitModes == {0, 126}
HeatTimes  == {120}
\* 'A', LF, CR, and 0x13
Chars      == {65, ASCII_LF, ASCII_CR, 19}
\* 's', 'M', 'L', 'l'
Sizes      == {115, 77, 76, 108}
FeedCounts == {0, 1, 2}
\* dotPrintTime, dotFeedTime pairs handed to setTimes
DotTimes   == {<<2, 1>>, <<1, 2>>}
Weights    == {0, 1, 2, 3, 255}
BarcodeHeights == {0, 1, 50, 255}
LineHeights == {0, 23, 24, 30, 255, 256}
Charsets   == {0, 15, 16}
CodePages  == {0, 47, 48}
\* "", "A", "HI"
Texts      == {<<>>, <<65>>, <<72, 73>>}
BarcodeTypes == {73}
ErrCorrects == {47, 48, 51, 52}
ModuleSizes == {0, 3}
QRModels   == {52}
\* column is not advanced past this by the modelled calls
MaxColumnSeen == 36
\* the same where only the pacing of line ends is followed
MaxPaceColumn == 2
\* longest run of text followed
MaxText == 8
\* 'A' and LF, and the longest run of them followed across a full line
LineChars  == {65, ASCII_LF}
MaxLine    == 36
\* <<w, h>> of the images printed
BitmapCases == {<<8, 0>>, <<8, 1>>, <<8, 256>>, <<12, 7>>, <<384, 16>>, <<400, 7>>}
\* the same where only the pacing of line ends is followed
PaceBitmapCases == {<<8, 0>>, <<12, 2>>}
Bitmaps    == {3}
MaxChunkHeights == {-1, 0, 1, 3, 255}
\* a call whose chunk limit is not positive never returns; it is followed for
\* this many chunks
MaxChunks  == 4
\* <<w, h>> of the images printed from a stream, and of those printed from a
\* stream that starts with its own width and height
StreamCases == {<<8, 0>>, <<12, 2>>, <<400, 1>>}
HeaderCases == {<<12, 2>>}
\* bytes arrived at fromStream and not read yet
MaxAvail   == 4
\* empty reads followed in one call
MaxSpins   == 2
\* <<w, h>> of the images stored in the printer's non-volatile memory
NVCases    == {<<0, 0>>, <<8, 8>>, <<16, 9>>, <<12, 8>>, <<7, 1>>}
\* status bytes the printer may answer with
StatusBytes == {0, 4, 18, 255}
\* unread bytes the stream buffers
MaxRx      == 1

---------------------------------------------------------------------------
(* State after construction: the constructor sets stream, dtrPin and       *)
(* dtrEnabled only.  begin() assigns every other field before any read of  *)
(* it, except printMode, which setDefault() only clears bits of.           *)

Init ==
    /\ firmware \in Firmwares
    /\ dtrPin \in DtrPins
    /\ begun = FALSE
    /\ printMode \in UninitModes
    /\ prevByte = 0 /\ column = 0 /\ maxColumn = 0 /\ charHeight = 0
    /\ lineSpacing = 0 /\ barcodeHeight = 0 /\ maxChunkHeight = 0
    /\ dtrEnabled = FALSE
    /\ dotPrintTime = 0 /\ dotFeedTime = 0
    /\ out = <<>> /\ d = 0
    /\ lastOp = [op |-> "Pos_Printer", arg |-> 0]
    /\ nText = 0 /\ plain = TRUE /\ charged = 0 /\ onLine = 0
    /\ bmPc = "idle" /\ bmW = 0 /\ bmH = 0 /\ bmBitmap = 0 /\ rowStart = 0 /\ bmI = 0
    /\ chunks = <<>>
    /\ hpPc = "idle" /\ hpI = 0 /\ status = -1 /\ rx = <<>> /\ polls = 0 /\ waits = 0
    /\ hpResult = "none"
    /\ stPc = "idle" /\ stX = 0 /\ stY = 0 /\ stI = 0 /\ stChunkHeight = 0
    /\ hdr = <<>> /\ srcData = <<>> /\ delivered = 0 /\ consumed = 0 /\ spins = 0

\* the object becomes what the call returned
Becomes(s) ==
    /\ printMode' = s.printMode /\ prevByte' = s.prevByte /\ column' = s.column
    /\ maxColumn' = s.maxColumn /\ charHeight' = s.charHeight
    /\ lineSpacing' = s.lineSpacing /\ barcodeHeight' = s.barcodeHeight
    /\ maxChunkHeight' = s.maxChunkHeight /\ dtrEnabled' = s.dtrEnabled
    /\ dotPrintTime' = s.dotPrintTime /\ dotFeedTime' = s.dotFeedTime
    /\ out' = s.out /\ d' = s.d

\* the record of a call
Op(name, arg) == [op |-> name, arg |-> arg]

NoText == nText' = 0 /\ plain' = TRUE /\ charged' = 0 /\ onLine' = 0

\* single-threaded: no call starts while another has not returned
Idle == bmPc = "idle" /\ hpPc = "idle" /\ stPc = "idle"

\* a public call other than begin(), made on a begun printer
Call(name, arg, s) ==
    /\ begun /\ Idle
    /\ Becomes(s)
    /\ lastOp' = Op(name, arg)
    /\ NoText
    /\ UNCHANGED <<buildVars, begun, bitmapVars, paperVars, streamVars>>

Begin ==
    \E heatTime \in HeatTimes :
        /\ Idle
        /\ Becomes(begin(Cur, heatTime, firmware, dtrPin))
        /\ begun' = TRUE
        /\ lastOp' = Op("begin", heatTime)
        /\ NoText
        /\ UNCHANGED <<buildVars, bitmapVars, paperVars, streamVars>>

\* write(c) as part of a run of text
TextWriteOf(chars, longest) ==
    \E c \in chars :
        LET s == write(Cur, c)
        IN  /\ begun /\ Idle /\ nText < longest
            /\ Becomes(s)
            /\ lastOp' = Op("write", c)
            /\ nText' = nText + 1
            /\ plain' = (plain /\ c \notin {ASCII_LF, ASCII_CR})
            /\ charged' = charged + s.d
            /\ onLine' = PrinterLine(onLine, s.out, maxColumn)
            /\ UNCHANGED <<buildVars, begun, bitmapVars, paperVars, streamVars>>

TextWrite == TextWriteOf(Chars, MaxText)
LineWrite == TextWriteOf(LineChars, MaxLine)

WriteUpTo(maxcol) ==
    \E c \in Chars : column < maxcol /\ Call("write", c, write(Cur, c))
Write     == WriteUpTo(MaxColumnSeen)
PaceWrite == WriteUpTo(MaxPaceColumn)
Tab   == column < MaxColumnSeen /\ Call("tab", 0, tab(Cur))
Reset == Call("reset", 0, reset(Cur, firmware))
Feed  == \E x \in FeedCounts : Call("feed", x, feed(Cur, x, firmware))
FeedRows == \E rows \in FeedCounts : Call("feedRows", rows, feedRows(Cur, rows))
SetSize  == \E value \in Sizes : Call("setSize", value, setSize(Cur, value))
Normal   == Call("normal", 0, normal(Cur))

InverseOn       == Call("inverseOn", 0, inverseOn(Cur, firmware))
InverseOff      == Call("inverseOff", 0, inverseOff(Cur, firmware))
UpsideDownOn    == Call("upsideDownOn", 0, upsideDownOn(Cur))
UpsideDownOff   == Call("upsideDownOff", 0, upsideDownOff(Cur))
DoubleHeightOn  == Call("doubleHeightOn", 0, doubleHeightOn(Cur))
DoubleHeightOff == Call("doubleHeightOff", 0, doubleHeightOff(Cur))
DoubleWidthOn   == Call("doubleWidthOn", 0, doubleWidthOn(Cur))
DoubleWidthOff  == Call("doubleWidthOff", 0, doubleWidthOff(Cur))
StrikeOn        == Call("strikeOn", 0, strikeOn(Cur))
StrikeOff       == Call("strikeOff", 0, strikeOff(Cur))
BoldOn          == Call("boldOn", 0, boldOn(Cur))
BoldOff         == Call("boldOff", 0, boldOff(Cur))

SetTimes == \E t \in DotTimes : Call("setTimes", t, setTimes(Cur, t[1], t[2]))
UnderlineOn  == \E weight \in Weights : Call("underlineOn", weight, underlineOn(Cur, weight))
UnderlineOff == Call("underlineOff", 0, underlineOff(Cur))
SetBarcodeHeight ==
    \E val \in BarcodeHeights : Call("setBarcodeHeight", val, setBarcodeHeight(Cur, val))
SetLineHeight == \E val \in LineHeights : Call("setLineHeight", val, setLineHeight(Cur, val))
SetCharset    == \E val \in Charsets : Call("setCharset", val, setCharset(Cur, val))
SetCodePage   == \E val \in CodePages : Call("setCodePage", val, setCodePage(Cur, val))
PrintBarcode ==
    \E text \in Texts, type \in BarcodeTypes :
        Call("printBarcode", <<text, type>>, printBarcode(Cur, text, type, firmware))
PrintQRcode ==
    \E text \in Texts, errCorrect \in ErrCorrects, moduleSize \in ModuleSizes,
       model \in QRModels :
        Call("printQRcode", <<text, errCorrect, moduleSize, model>>,
             printQRcode(Cur, text, errCorrect, moduleSize, model))
ReprintQRcode == Call("reprintQRcode", 0, reprintQRcode(Cur))
SetMaxChunkHeight ==
    \E val \in MaxChunkHeights : Call("setMaxChunkHeight", val, setMaxChunkHeight(Cur, val))
PrintBitmapOf(cases) ==
    \E c \in cases, bitmap \in Bitmaps :
        Call("printBitmap", <<c[1], c[2], bitmap>>, printBitmap(Cur, c[1], c[2], bitmap))
PrintBitmap     == PrintBitmapOf(BitmapCases)
PacePrintBitmap == PrintBitmapOf(PaceBitmapCases)

\* printBitmap_ada(w, h, bitmap, fromProgMem): entry, one pass of the outer
\* loop, and the exit of the loop with the return
PrintBitmapAdaOf(cases) ==
    \E c \in cases, bitmap \in Bitmaps :
        /\ begun /\ Idle
        /\ bmPc' = "chunks" /\ bmW' = c[1] /\ bmH' = c[2] /\ bmBitmap' = bitmap
        /\ rowStart' = 0 /\ bmI' = 0 /\ chunks' = <<>>
        /\ out' = <<>> /\ d' = 0
        /\ lastOp' = Op("printBitmap_ada", <<c[1], c[2], bitmap>>)
        /\ NoText
        /\ UNCHANGED <<buildVars, begun, devVars, paperVars, streamVars>>

PrintBitmapAda     == PrintBitmapAdaOf(BitmapCases)
PacePrintBitmapAda == PrintBitmapAdaOf(PaceBitmapCases)

BitmapChunk ==
    LET limit       == ChunkHeightLimit(Cur, bmW)
        chunkHeight == ChunkHeight(bmH, rowStart, limit)
        s           == writeBytes(Cur, <<ASCII_ESC, 42, chunkHeight, RowBytesClipped(bmW)>>)
    IN  /\ bmPc = "chunks" /\ rowStart < bmH
        /\ limit >= 1 \/ Len(chunks) < MaxChunks
        /\ out' = out \o s.out \o ChunkBytes(bmW, bmBitmap, bmI, chunkHeight)
        /\ bmI' = bmI + (IF chunkHeight > 0 THEN chunkHeight * RowBytes(bmW) ELSE 0)
        /\ rowStart' = rowStart + limit
        /\ chunks' = Append(chunks, <<chunkHeight, RowBytesClipped(bmW)>>)
        /\ UNCHANGED <<buildVars, begun, devVars, d, lastOp, textVars, bmPc, bmW, bmH,
                       bmBitmap, paperVars, streamVars>>

BitmapReturn ==
    /\ bmPc = "chunks" /\ rowStart >= bmH
    /\ prevByte' = ASCII_LF
    /\ bmPc' = "idle"
    /\ UNCHANGED <<buildVars, begun, printMode, column, maxColumn, charHeight, lineSpacing,
                   barcodeHeight, maxChunkHeight, dtrEnabled, dotPrintTime, dotFeedTime,
                   out, d, lastOp, textVars, bmW, bmH, bmBitmap, rowStart, bmI, chunks,
                   paperVars, streamVars>>

\* hasPaper(): the status request, the passes of the polling loop, the return
HasPaper ==
    /\ begun /\ Idle
    /\ out' = Bytes(<<16, 4, 4>>) /\ d' = 0
    /\ status' = -1 /\ hpI' = 0 /\ polls' = 0 /\ waits' = 0
    /\ hpPc' = "poll" /\ hpResult' = "none"
    /\ lastOp' = Op("hasPaper", 0)
    /\ NoText
    /\ UNCHANGED <<buildVars, begun, devVars, bitmapVars, rx, streamVars>>

\* stream->available() is true: read the byte and break
PollRead ==
    /\ hpPc = "poll" /\ hpI < 10 /\ rx # <<>>
    /\ polls' = polls + 1
    /\ status' = Head(rx) /\ rx' = Tail(rx)
    /\ hpPc' = "return"
    /\ UNCHANGED <<buildVars, begun, devVars, out, d, lastOp, textVars, bitmapVars, streamVars,
                   hpI, waits, hpResult>>

\* nothing available: delay(100), i++
PollWait ==
    /\ hpPc = "poll" /\ hpI < 10 /\ rx = <<>>
    /\ polls' = polls + 1 /\ waits' = waits + 1
    /\ hpI' = hpI + 1
    /\ UNCHANGED <<buildVars, begun, devVars, out, d, lastOp, textVars, bitmapVars, streamVars,
                   hpPc, status, rx, hpResult>>

HasPaperReturn ==
    /\ hpPc = "return" \/ (hpPc = "poll" /\ hpI >= 10)
    /\ hpResult' = IF PaperPresent(status) THEN "paper" ELSE "no paper"
    /\ hpPc' = "idle"
    /\ UNCHANGED <<buildVars, begun, devVars, out, d, lastOp, textVars, bitmapVars, streamVars,
                   hpI, status, rx, polls, waits>>

\* the printer answers a status request at a time of its own
Deliver ==
    \E b \in StatusBytes :
        /\ begun /\ Len(rx) < MaxRx
        /\ rx' = Append(rx, b)
        /\ UNCHANGED <<buildVars, begun, devVars, out, d, lastOp, textVars, bitmapVars, streamVars,
                       hpPc, hpI, status, polls, waits, hpResult>>

\* the pixel bytes of image `bitmap`, w by h, as a source stream carries them
SourceOf(w, h, bitmap) == PixelRun(bitmap, 0, h * RowBytes(w))

\* fromStream->read(): the next byte, or -1 when none has arrived
ReadResult == IF consumed < delivered THEN srcData[consumed + 1] ELSE -1

\* printBitmap_ada(w, h, fromStream): entry.  Some of the source may have
\* arrived already.
PrintBitmapAdaStream ==
    \E c \in StreamCases, bitmap \in Bitmaps, n \in 0..MaxAvail :
        /\ begun /\ Idle
        /\ n <= Len(SourceOf(c[1], c[2], bitmap))
        /\ srcData' = SourceOf(c[1], c[2], bitmap)
        /\ delivered' = n /\ consumed' = 0 /\ spins' = 0
        /\ bmW' = c[1] /\ bmH' = c[2] /\ bmBitmap' = bitmap
        /\ rowStart' = 0 /\ chunks' = <<>>
        /\ stPc' = "loop" /\ stX' = 0 /\ stY' = 0 /\ stI' = 0 /\ stChunkHeight' = 0
        /\ hdr' = <<>>
        /\ out' = <<>> /\ d' = 0
        /\ lastOp' = Op("printBitmap_ada_stream", <<c[1], c[2], bitmap>>)
        /\ NoText
        /\ UNCHANGED <<buildVars, begun, devVars, paperVars, bmPc, bmI>>

\* printBitmap_ada(fromStream): entry.  The source starts with the width and
\* the height, two bytes each, low byte first.
PrintBitmapAdaHeader ==
    \E c \in HeaderCases, bitmap \in Bitmaps, n \in 0..MaxAvail :
        /\ begun /\ Idle
        /\ srcData' = Bytes(<<c[1] % 256, c[1] \div 256, c[2] % 256, c[2] \div 256>>)
                          \o SourceOf(c[1], c[2], bitmap)
        /\ delivered' = n /\ consumed' = 0 /\ spins' = 0
        /\ bmW' = 0 /\ bmH' = 0 /\ bmBitmap' = bitmap
        /\ rowStart' = 0 /\ chunks' = <<>>
        /\ stPc' = "header" /\ stX' = 0 /\ stY' = 0 /\ stI' = 0 /\ stChunkHeight' = 0
        /\ hdr' = <<>>
        /\ out' = <<>> /\ d' = 0
        /\ lastOp' = Op("printBitmap_ada_header", <<c[1], c[2], bitmap>>)
        /\ NoText
        /\ UNCHANGED <<buildVars, begun, devVars, paperVars, bmPc, bmI>>

\* one of the four fromStream->read() calls of the header; after the fourth,
\* the call printBitmap_ada(width, height, fromStream)
HeaderRead ==
    /\ stPc = "header"
    /\ hdr' = Append(hdr, ReadResult)
    /\ consumed' = IF consumed < delivered THEN consumed + 1 ELSE consumed
    /\ IF Len(hdr) = 3
       THEN /\ bmW' \in HeaderWord(hdr'[1], hdr'[2])
            /\ bmH' \in HeaderWord(hdr'[3], hdr'[4])
            /\ stPc' = "loop"
       ELSE UNCHANGED <<bmW, bmH, stPc>>
    /\ UNCHANGED <<buildVars, begun, devVars, out, d, lastOp, textVars, paperVars,
                   bmPc, bmBitmap, rowStart, bmI, chunks,
                   stX, stY, stI, stChunkHeight, srcData, delivered, spins>>

\* one pass of the outer loop up to the header: chunkHeight, writeBytes
StreamChunk ==
    LET limit       == ChunkHeightLimit(Cur, bmW)
        chunkHeight == ChunkHeight(bmH, rowStart, limit)
        s           == writeBytes(Cur, <<ASCII_ESC, 42, chunkHeight, RowBytesClipped(bmW)>>)
    IN  /\ stPc = "loop" /\ rowStart < bmH
        /\ limit >= 1 \/ Len(chunks) < MaxChunks
        /\ out' = out \o s.out
        /\ chunks' = Append(chunks, <<chunkHeight, RowBytesClipped(bmW)>>)
        /\ stChunkHeight' = chunkHeight /\ stY' = 0 /\ stX' = 0
        /\ IF chunkHeight > 0
           THEN stPc' = "send" /\ rowStart' = rowStart
           ELSE stPc' = "loop" /\ rowStart' = rowStart + limit
        /\ UNCHANGED <<buildVars, begun, devVars, d, lastOp, textVars, paperVars,
                       bmPc, bmW, bmH, bmBitmap, bmI,
                       stI, hdr, srcData, delivered, consumed, spins>>

\* y++ after a row: the next row, or rowStart += chunkHeightLimit
NextRow ==
    /\ stY' = stY + 1 /\ stX' = 0
    /\ IF stY + 1 < stChunkHeight
       THEN stPc' = "send" /\ rowStart' = rowStart
       ELSE stPc' = "loop" /\ rowStart' = rowStart + ChunkHeightLimit(Cur, bmW)

\* while((c = fromStream->read()) < 0); stream->write((uint8_t)c): a read
\* that returned a byte
StreamSend ==
    /\ stPc = "send" /\ consumed < delivered
    /\ out' = Append(out, u8(ReadResult))
    /\ consumed' = consumed + 1
    /\ IF stX + 1 < RowBytesClipped(bmW)
       THEN stX' = stX + 1 /\ UNCHANGED <<stY, stI, stPc, rowStart>>
       ELSE IF DiscardCount(bmW) > 0
            THEN /\ stX' = stX + 1 /\ stI' = DiscardCount(bmW) /\ stPc' = "skip"
                 /\ UNCHANGED <<stY, rowStart>>
            ELSE stI' = DiscardCount(bmW) /\ NextRow
    /\ UNCHANGED <<buildVars, begun, devVars, d, lastOp, textVars, paperVars,
                   bmPc, bmW, bmH, bmBitmap, bmI, chunks,
                   stChunkHeight, hdr, srcData, delivered, spins>>

\* the discard loop: a read that returned a byte
StreamSkip ==
    /\ stPc = "skip" /\ consumed < delivered
    /\ consumed' = consumed + 1
    /\ stI' = stI - 1
    /\ IF stI - 1 > 0
       THEN UNCHANGED <<stX, stY, stPc, rowStart>>
       ELSE NextRow
    /\ UNCHANGED <<buildVars, begun, devVars, out, d, lastOp, textVars, paperVars,
                   bmPc, bmW, bmH, bmBitmap, bmI, chunks,
                   stChunkHeight, hdr, srcData, delivered, spins>>

\* a read of either loop that returned -1
StreamSpin ==
    /\ stPc \in {"send", "skip"} /\ consumed = delivered
    /\ spins < MaxSpins
    /\ spins' = spins + 1
    /\ UNCHANGED <<buildVars, begun, devVars, out, d, lastOp, textVars, paperVars,
                   bitmapVars, stPc, stX, stY, stI, stChunkHeight, hdr, srcData,
                   delivered, consumed>>

StreamReturn ==
    /\ stPc = "loop" /\ rowStart >= bmH
    /\ prevByte' = ASCII_LF
    /\ stPc' = "idle"
    /\ UNCHANGED <<buildVars, begun, printMode, column, maxColumn, charHeight, lineSpacing,
                   barcodeHeight, maxChunkHeight, dtrEnabled, dotPrintTime, dotFeedTime,
                   out, d, lastOp, textVars, paperVars, bitmapVars,
                   stX, stY, stI, stChunkHeight, hdr, srcData, delivered, consumed, spins>>

\* the next byte of the source arrives at fromStream, at a time of its own
SourceDeliver ==
    /\ stPc # "idle"
    /\ delivered < Len(srcData) /\ delivered - consumed < MaxAvail
    /\ delivered' = delivered + 1
    /\ UNCHANGED <<buildVars, begun, devVars, out, d, lastOp, textVars, paperVars,
                   bitmapVars, stPc, stX, stY, stI, stChunkHeight, hdr, srcData,
                   consumed, spins>>

DefineNVBitmap ==
    \E c \in NVCases, bitmap \in Bitmaps :
        Call("defineNVBitmap", <<c[1], c[2], bitmap>>,
             defineNVBitmap(Cur, c[1], c[2], bitmap))

DefineNVBitmap2 ==
    \E c1 \in NVCases, c2 \in NVCases, bitmap \in Bitmaps :
        Call("defineNVBitmap2", <<c1[1], c1[2], bitmap, c2[1], c2[2], bitmap>>,
             defineNVBitmap2(Cur, c1[1], c1[2], bitmap, c2[1], c2[2], bitmap))

\* The cursor machine: text, tabs, feeds and the calls that change the line
\* geometry
Next ==
    \/ Begin \/ Write \/ Tab \/ Reset \/ Feed \/ FeedRows \/ SetSize \/ Normal
    \/ DoubleHeightOn \/ DoubleHeightOff \/ DoubleWidthOn \/ DoubleWidthOff
    \/ BoldOn \/ BoldOff

Spec == Init /\ [][Next]_vars

\* The print-mode machine: every flag toggle with the calls that set the
\* character size
NextMode ==
    \/ Begin \/ Reset \/ SetSize \/ Normal
    \/ InverseOn \/ InverseOff \/ UpsideDownOn \/ UpsideDownOff
    \/ DoubleHeightOn \/ DoubleHeightOff \/ DoubleWidthOn \/ DoubleWidthOff
    \/ StrikeOn \/ StrikeOff \/ BoldOn \/ BoldOff

SpecMode == Init /\ [][NextMode]_vars

\* The parameterised configuration commands
NextEnc ==
    \/ Begin \/ UnderlineOn \/ UnderlineOff \/ SetBarcodeHeight \/ SetLineHeight
    \/ SetCharset \/ SetCodePage \/ PrintQRcode

SpecEnc == Init /\ [][NextEnc]_vars

\* Pacing: the calls that end a line, and the text written after them
NextPace ==
    \/ Begin \/ SetTimes \/ PaceWrite \/ Reset \/ Feed \/ FeedRows \/ SetSize
    \/ PacePrintBitmap \/ PacePrintBitmapAda \/ BitmapChunk \/ BitmapReturn
    \/ PrintBarcode \/ ReprintQRcode

SpecPace == Init /\ [][NextPace]_vars

\* Line ends: text written at either character size with the dot times varied
NextWrap == Begin \/ SetTimes \/ Write \/ SetSize

SpecWrap == Init /\ [][NextWrap]_vars

\* Lines of text filled to their end
NextLine == Begin \/ Reset \/ LineWrite

SpecLine == Init /\ [][NextLine]_vars

\* Runs of text on a fresh line
NextText == Begin \/ Reset \/ TextWrite

SpecText == Init /\ [][NextText]_vars

\* The bitmap prints: the chunked one, and the one sent as a single raster
NextBitmap ==
    \/ Begin \/ SetMaxChunkHeight \/ PrintBitmapAda \/ BitmapChunk \/ BitmapReturn
    \/ PrintBitmap

SpecBitmap == Init /\ [][NextBitmap]_vars

\* The bitmap prints that read the image from a stream
NextStream ==
    \/ Begin \/ SetMaxChunkHeight \/ PrintBitmapAdaStream \/ PrintBitmapAdaHeader
    \/ HeaderRead \/ StreamChunk \/ StreamSend \/ StreamSkip \/ StreamSpin
    \/ StreamReturn \/ SourceDeliver

SpecStream == Init /\ [][NextStream]_vars

\* The definition of non-volatile bitmaps
NextNV == Begin \/ DefineNVBitmap \/ DefineNVBitmap2

SpecNV == Init /\ [][NextNV]_vars

\* The paper status poll
NextPaper == Begin \/ HasPaper \/ PollRead \/ PollWait \/ HasPaperReturn \/ Deliver

SpecPaper == Init /\ [][NextPaper]_vars

---------------------------------------------------------------------------
(* Claims *)

Flag(mask) == BitAnd(printMode, mask) # 0

\* C1: in every state reached after begin() by write, tab, the mode toggles,
\* setSize, feed, feedRows and reset, the tracked cursor satisfies
\* 0 <= column <= maxColumn.
C1_ColumnWithinLine == begun => (0 <= column /\ column <= maxColumn)

\* C2: after begin(), maxColumn is 16 or 32 and charHeight is 24 or 48, and
\* both agree with the flags: charHeight = 48 exactly when the double-height
\* flag of printMode is set, maxColumn = 16 exactly when the double-width
\* flag is set.
C2_GeometryMatchesFlags ==
    begun => /\ maxColumn \in {16, 32}
             /\ charHeight \in {24, 48}
             /\ (charHeight = 48) <=> Flag(DOUBLE_HEIGHT_MASK)
             /\ (maxColumn = 16) <=> Flag(DOUBLE_WIDTH_MASK)

\* C4: write('\r') emits no byte and leaves column and prevByte unchanged;
\* write of every other character value emits that character.
C4_StripsCarriageReturn ==
    [][lastOp'.op = "write" =>
          IF lastOp'.arg = ASCII_CR
          THEN out' = <<>> /\ column' = column /\ prevByte' = prevByte
          ELSE out' = <<lastOp'.arg>>]_vars

\* C10: doubleHeightOn/Off sets charHeight to 48/24 and leaves maxColumn as it
\* was; doubleWidthOn/Off sets maxColumn to 16/32 and leaves charHeight as it
\* was, whatever call established the current size.
C10_IndependentToggles ==
    [][/\ lastOp'.op = "doubleHeightOn"  => (charHeight' = 48 /\ maxColumn' = maxColumn)
       /\ lastOp'.op = "doubleHeightOff" => (charHeight' = 24 /\ maxColumn' = maxColumn)
       /\ lastOp'.op = "doubleWidthOn"   => (maxColumn' = 16 /\ charHeight' = charHeight)
       /\ lastOp'.op = "doubleWidthOff"  => (maxColumn' = 32 /\ charHeight' = charHeight)]_vars

\* the flag of printMode a toggle sets, and the flag a toggle clears
OnMask(op) ==
    CASE op = "inverseOn"      -> INVERSE_MASK
      [] op = "upsideDownOn"   -> UPDOWN_MASK
      [] op = "boldOn"         -> BOLD_MASK
      [] op = "doubleHeightOn" -> DOUBLE_HEIGHT_MASK
      [] op = "doubleWidthOn"  -> DOUBLE_WIDTH_MASK
      [] op = "strikeOn"       -> STRIKE_MASK
      [] OTHER                 -> 0

OffMask(op) ==
    CASE op = "inverseOff"      -> INVERSE_MASK
      [] op = "upsideDownOff"   -> UPDOWN_MASK
      [] op = "boldOff"         -> BOLD_MASK
      [] op = "doubleHeightOff" -> DOUBLE_HEIGHT_MASK
      [] op = "doubleWidthOff"  -> DOUBLE_WIDTH_MASK
      [] op = "strikeOff"       -> STRIKE_MASK
      [] OTHER                  -> 0

SamePrintState ==
    /\ printMode' = printMode /\ charHeight' = charHeight /\ maxColumn' = maxColumn
    /\ column' = column /\ prevByte' = prevByte

\* C11: where a flag of printMode is already set, its ...On call leaves
\* printMode, charHeight, maxColumn, column and prevByte unchanged; where it is
\* already clear, its ...Off call does.
C11_IdempotentToggles ==
    [][/\ (OnMask(lastOp'.op) # 0 /\ Flag(OnMask(lastOp'.op))) => SamePrintState
       /\ (OffMask(lastOp'.op) # 0 /\ ~Flag(OffMask(lastOp'.op))) => SamePrintState]_vars

Clamp(x, lo, hi) == IF x < lo THEN lo ELSE IF x > hi THEN hi ELSE x

\* C7: underlineOn(weight) for weight > 2 emits the bytes and leaves the state
\* of underlineOn(2); setBarcodeHeight(0) those of setBarcodeHeight(1);
\* printQRcode with an error-correction code outside 48..51 emits the byte
\* stream it emits with code 48.
C7_ClampedParameters ==
    [][/\ (lastOp'.op = "underlineOn" /\ lastOp'.arg > 2)
            => (Becomes(underlineOn(Cur, 2)) /\ out' = <<ASCII_ESC, 45, 2>>)
       /\ (lastOp'.op = "setBarcodeHeight" /\ lastOp'.arg = 0)
            => (Becomes(setBarcodeHeight(Cur, 1)) /\ barcodeHeight' = 1)
       /\ (lastOp'.op = "printQRcode" /\ lastOp'.arg[2] \notin 48..51)
            => out' = printQRcode(Cur, lastOp'.arg[1], 48, lastOp'.arg[3],
                                  lastOp'.arg[4]).out]_vars

C7_Witness ==
    /\ lastOp.op = "printQRcode" /\ lastOp.arg[2] = 52 /\ lastOp.arg[1] = <<72, 73>>
    /\ SubSeq(out, 21, 25) = <<3, 0, 49, 69, 48>>

\* C8: setLineHeight(val) sends val clamped into 24..255 as the parameter byte
\* and sets lineSpacing to the byte sent minus 24.
C8_LineHeightClamped ==
    [][lastOp'.op = "setLineHeight" =>
          /\ out' = <<ASCII_ESC, 51, Clamp(lastOp'.arg, 24, 255)>>
          /\ lineSpacing' = Clamp(lastOp'.arg, 24, 255) - 24]_vars

Min(a, b) == IF a < b THEN a ELSE b
CeilDiv(a, b) == (a + b - 1) \div b

RECURSIVE SumHeights(_)
SumHeights(cs) == IF cs = <<>> THEN 0 ELSE Head(cs)[1] + SumHeights(Tail(cs))

\* printBitmap_ada has returned
BitmapDone == lastOp.op = "printBitmap_ada" /\ bmPc = "idle"

\* C3 (as stated): for every h >= 0 and positive maxChunkHeight, handshake
\* enabled or not, the chunk heights of printBitmap_ada sum to h, no chunk
\* height exceeds min(maxChunkHeight, 255), and the number of chunks is
\* ceil(h / chunkHeightLimit).
C3_ChunksWithinMaxChunkHeight ==
    (BitmapDone /\ maxChunkHeight >= 1) =>
        /\ SumHeights(chunks) = bmH
        /\ \A k \in 1..Len(chunks) : chunks[k][1] <= Min(maxChunkHeight, 255)
        /\ Len(chunks) = CeilDiv(bmH, ChunkHeightLimit(Cur, bmW))

\* the limit as section 4.4 states it
LimitOf(w) ==
    IF dtrEnabled THEN 255
    ELSE Min(256 \div Min(CeilDiv(w, 8), 48), maxChunkHeight)

\* C3 (amended): for every h >= 0, w >= 1 and maxChunkHeight in 1..255 the
\* chunk heights sum to h, every chunk height is between 1 and the chunk
\* limit, which is 255 with the handshake enabled (maxChunkHeight is then not
\* consulted) and min(floor(256 / clippedRowBytes), maxChunkHeight) without it,
\* so that every height fits the one-byte row count; the number of chunks is
\* ceil(h / limit).
C3_ChunksWithinLimit ==
    (BitmapDone /\ maxChunkHeight \in 1..255) =>
        /\ SumHeights(chunks) = bmH
        /\ \A k \in 1..Len(chunks) :
              /\ chunks[k][1] \in 1..LimitOf(bmW)
              /\ chunks[k][1] <= 255
              /\ chunks[k][1] <= Min(maxChunkHeight, 255) \/ dtrEnabled
        /\ Len(chunks) = CeilDiv(bmH, LimitOf(bmW))

C3_Witness ==
    /\ BitmapDone /\ dtrEnabled /\ maxChunkHeight = 3
    /\ bmH = 256 /\ chunks = <<(<<255, 1>>), (<<1, 1>>)>>

\* the chunk limit as the chunk-height selection rule states it
SelectedLimit(w) ==
    IF dtrEnabled THEN 255
    ELSE Clamp(256 \div Min(CeilDiv(w, 8), 48), 1, maxChunkHeight)

\* C12: every pass of printBitmap_ada's loop issues min(limit, rows left) rows
\* and moves on by limit rows, where limit is 255 with the handshake enabled
\* and floor(256 / clippedRowBytes) clamped into [1, maxChunkHeight] without
\* it (maxChunkHeight >= 1, so that the interval is not empty); a 384x16
\* bitmap with maxChunkHeight = 255 and no handshake goes out as chunks of
\* 5, 5, 5 and 1 rows.
C12_ChunkLimitSelection ==
    [][/\ (bmPc = "chunks" /\ chunks' # chunks /\ maxChunkHeight >= 1) =>
            /\ rowStart' - rowStart = SelectedLimit(bmW)
            /\ chunks' = Append(chunks, <<Min(SelectedLimit(bmW), bmH - rowStart),
                                          Min(CeilDiv(bmW, 8), 48)>>)
       /\ (bmPc = "chunks" /\ bmPc' = "idle" /\ bmW = 384 /\ bmH = 16
              /\ maxChunkHeight = 255 /\ ~dtrEnabled) =>
            chunks' = <<(<<5, 48>>), (<<5, 48>>), (<<5, 48>>), (<<1, 48>>)>>]_vars

C12_Witness ==
    /\ BitmapDone /\ bmW = 384 /\ bmH = 16 /\ maxChunkHeight = 255 /\ ~dtrEnabled
    /\ chunks = <<(<<5, 48>>), (<<5, 48>>), (<<5, 48>>), (<<1, 48>>)>>
    /\ rowStart = 20

\* C13: printBitmap(w, h, bitmap) declares a row width of at most 48 bytes in
\* its header and sends, for each row, the first min(ceil(w/8), 48) bytes of
\* the source row and nothing else.
C13_PrintBitmapClips ==
    lastOp.op = "printBitmap" =>
        LET w   == lastOp.arg[1]
            h   == lastOp.arg[2]
            rbc == Min(CeilDiv(w, 8), 48)
        IN  /\ out[5] + 256 * out[6] <= 48
            /\ Len(out) = 8 + h * rbc
            /\ \A r \in 0..(h - 1) :
                  SubSeq(out, 8 + r * rbc + 1, 8 + (r + 1) * rbc)
                      = PixelRun(lastOp.arg[3], r * CeilDiv(w, 8), rbc)

ClippedRows(w, bitmap, r0, n) ==
    LET rbc == Min(CeilDiv(w, 8), 48)
    IN  [k \in 1..(n * rbc) |->
            Pixel(bitmap, (r0 + ((k - 1) \div rbc)) * CeilDiv(w, 8) + ((k - 1) % rbc))]

\* C15: in printBitmap_ada(w, h, bitmap), w >= 1, h >= 0, every pass of the
\* loop sends the header ESC * chunkHeight clippedRowBytes, clippedRowBytes =
\* min(ceil(w/8), 48), and then exactly chunkHeight * clippedRowBytes pixel
\* bytes: the next chunkHeight rows of the image, row r being source bytes
\* r * ceil(w/8) .. r * ceil(w/8) + clippedRowBytes - 1 in order.  (The chunk
\* limit is one a row-count byte holds: handshake, or maxChunkHeight in
\* 0..255.)
C15_ChunkLayout ==
    [][(bmPc = "chunks" /\ chunks' # chunks /\ (dtrEnabled \/ maxChunkHeight \in 0..255)) =>
          LET c == chunks'[Len(chunks')]
          IN  /\ c[2] = Min(CeilDiv(bmW, 8), 48)
              /\ c[1] \in 0..255
              /\ out' = out \o <<ASCII_ESC, 42, c[1], c[2]>>
                            \o ClippedRows(bmW, bmBitmap, SumHeights(chunks), c[1])]_vars

\* a 400-pixel-wide image: rows of 50 bytes sent as 48, in chunks of 5 and 2
C15_Witness ==
    /\ BitmapDone /\ bmW = 400 /\ bmH = 7 /\ ~dtrEnabled /\ maxChunkHeight = 255
    /\ chunks = <<(<<5, 48>>), (<<2, 48>>)>>
    /\ Len(out) = 8 + 7 * 48
    /\ out[4 + 48 + 1] = Pixel(bmBitmap, 50)
    /\ SubSeq(out, 4 + 5 * 48 + 1, 4 + 5 * 48 + 4) = <<ASCII_ESC, 42, 2, 48>>

IsPrefix(a, b) == Len(a) <= Len(b) /\ SubSeq(b, 1, Len(a)) = a

\* C16: printBitmap_ada(w, h, fromStream) sends the bytes the buffer variant
\* sends for the same w, h, maxChunkHeight, handshake setting and pixel data,
\* whenever the source's bytes arrive: what it has sent so far is always a
\* prefix of them, and when it returns it has sent all of them, has read
\* exactly h * ceil(w/8) bytes of the source and leaves prevByte = newline.
\* (Stated where the buffer variant returns: chunk limit >= 1.)
C16_StreamEqualsBuffer ==
    (lastOp.op = "printBitmap_ada_stream" /\ ChunkHeightLimit(Cur, bmW) >= 1) =>
        LET buffer == printBitmap_ada(Cur, bmW, bmH, bmBitmap)
        IN  /\ IsPrefix(out, buffer.out)
            /\ consumed <= bmH * CeilDiv(bmW, 8)
            /\ stPc = "idle" =>
                  /\ out = buffer.out
                  /\ consumed = bmH * CeilDiv(bmW, 8)
                  /\ prevByte = ASCII_LF /\ prevByte = buffer.prevByte

\* a 400-pixel-wide row read through empty reads: 50 bytes read, 48 sent
C16_Witness ==
    /\ lastOp.op = "printBitmap_ada_stream" /\ stPc = "idle"
    /\ bmW = 400 /\ bmH = 1 /\ spins = MaxSpins
    /\ consumed = 50 /\ Len(out) = 4 + 48
    /\ out = printBitmap_ada(Cur, 400, 1, bmBitmap).out

\* C17: printBitmap_ada(fromStream), whenever the bytes of the source arrive,
\* calls printBitmap_ada(width, height, fromStream) with width = b0 + 256 * b1
\* and height = b2 + 256 * b3, b0..b3 the first four bytes of the source, and
\* with everything after them still unread.
C17_HeaderThenDelegate ==
    (lastOp.op = "printBitmap_ada_header" /\ stPc = "loop" /\ chunks = <<>>) =>
        /\ bmW = srcData[1] + 256 * srcData[2]
        /\ bmH = srcData[3] + 256 * srcData[4]
        /\ consumed = 4

\* where the command bs first starts in the bytes sent, 0 if nowhere
FirstAt(bs, sent) ==
    LET at == {k \in 1..(Len(sent) - Len(bs) + 1) : SubSeq(sent, k, k + Len(bs) - 1) = bs}
    IN  IF at = {} THEN 0 ELSE CHOOSE k \in at : \A j \in at : k <= j

\* C18: begin(), from any prior state, sends the wake byte first, then the
\* reset command (ESC @), then the heat parameters (ESC 7), then the default
\* formatting, which starts with ESC = 1; when it returns column = 0, prevByte
\* = newline, maxColumn = 32, charHeight = 24, lineSpacing = 6, barcodeHeight
\* = 50, maxChunkHeight = 255, the inverse, bold, double-height and
\* double-width flags are clear, and dtrEnabled holds exactly when dtrPin < 255.
C18_BeginDefaults ==
    lastOp.op = "begin" =>
        /\ out[1] = 255
        /\ 1 < FirstAt(<<ASCII_ESC, 64>>, out)
        /\ FirstAt(<<ASCII_ESC, 64>>, out) < FirstAt(<<ASCII_ESC, 55, 11, lastOp.arg, 40>>, out)
        /\ FirstAt(<<ASCII_ESC, 55, 11, lastOp.arg, 40>>, out) < FirstAt(<<ASCII_ESC, 61, 1>>, out)
        /\ column = 0 /\ prevByte = ASCII_LF /\ maxColumn = 32 /\ charHeight = 24
        /\ lineSpacing = 6 /\ barcodeHeight = 50 /\ maxChunkHeight = 255
        /\ ~Flag(INVERSE_MASK) /\ ~Flag(BOLD_MASK)
        /\ ~Flag(DOUBLE_HEIGHT_MASK) /\ ~Flag(DOUBLE_WIDTH_MASK)
        /\ dtrEnabled <=> (dtrPin < 255)

\* C19: without the handshake printBitmap_ada(w, h, bitmap) terminates after
\* finitely many chunks whatever value setMaxChunkHeight was given, zero and
\* negative values included: every pass of its loop issues at least one row
\* and leaves fewer rows to issue than before (h - rowStart decreases), so
\* there are at most h passes.
C19_EveryPassAdvances ==
    [][(bmPc = "chunks" /\ chunks' # chunks /\ ~dtrEnabled) =>
          /\ chunks'[Len(chunks')][1] >= 1
          /\ bmH - rowStart' < bmH - rowStart
          /\ Len(chunks') <= bmH]_vars

\* C20: through any sequence of text writes after a reset, column equals the
\* number of characters on the printer's current line, the printer starting a
\* new line once maxColumn characters are on the current one.
C20_ColumnFollowsPrinter ==
    lastOp.op \in {"begin", "reset", "write"} => column = onLine

\* the calls that end a line
LineEnders == {"reset", "feed", "feedRows", "setSize", "printBitmap",
               "printBitmap_ada", "printBarcode", "reprintQRcode"}

BlankLineTime == BYTE_TIME + (charHeight + lineSpacing) * dotFeedTime

\* C5 (as stated): a write('\n') right after any of reset, feed, feedRows,
\* setSize, printBitmap, printBitmap_ada, printBarcode and reprintQRcode is
\* charged the blank-line settle time (charHeight + lineSpacing) * dotFeedTime.
C5_BlankLineAfterLineEnder ==
    [][(lastOp.op \in LineEnders /\ lastOp'.op = "write" /\ lastOp'.arg = ASCII_LF)
            => d' = BlankLineTime]_vars

\* feed(0) where the build feeds by writing newlines
EmptyManualFeed(o) == o.op = "feed" /\ o.arg = 0 /\ firmware < 264

\* C5 (amended): the same, except after feed(0) on a build with
\* PRINTER_FIRMWARE < 264, which writes nothing and leaves prevByte as it was;
\* every other one of these calls leaves prevByte = newline.
C5_BlankLineAfterLineEnderButEmptyFeed ==
    [][/\ (lastOp'.op \in LineEnders /\ bmPc' = "idle" /\ ~EmptyManualFeed(lastOp'))
            => prevByte' = ASCII_LF
       /\ (lastOp.op \in LineEnders /\ ~EmptyManualFeed(lastOp)
              /\ lastOp'.op = "write" /\ lastOp'.arg = ASCII_LF)
            => d' = BlankLineTime]_vars

\* C21 (as stated): for every x in 0..255 and from every state, feed(x) leaves
\* column = 0 and prevByte = newline, on the builds that send the
\* feed-by-lines command and on those that write x newlines.
C21_FeedEndsLine ==
    [][lastOp'.op = "feed" => (column' = 0 /\ prevByte' = ASCII_LF)]_vars

\* x newline characters
RECURSIVE Newlines(_)
Newlines(x) == IF x = 0 THEN <<>> ELSE <<ASCII_LF>> \o Newlines(x - 1)

\* C21 (amended): feed(x) sends ESC d x on a build with PRINTER_FIRMWARE >=
\* 264 and x newlines on an older one, and leaves column = 0 and prevByte =
\* newline in both, except feed(0) on the older build, which sends nothing and
\* leaves column and prevByte as they were.
C21_FeedEndsLineButEmptyFeed ==
    [][lastOp'.op = "feed" =>
          /\ out' = IF firmware >= 264 THEN <<ASCII_ESC, 100, lastOp'.arg>>
                    ELSE Newlines(lastOp'.arg)
          /\ IF EmptyManualFeed(lastOp')
             THEN column' = column /\ prevByte' = prevByte
             ELSE column' = 0 /\ prevByte' = ASCII_LF]_vars

\* feed(2) by newlines after text: a printed line and a blank line are paid
C21_Witness ==
    /\ lastOp = Op("feed", 2) /\ firmware = 263 /\ out = <<ASCII_LF, ASCII_LF>>
    /\ dotPrintTime = 2 /\ dotFeedTime = 1 /\ charHeight = 24 /\ lineSpacing = 6
    /\ d = 2 * BYTE_TIME + (24 * 2 + 6 * 1) + (24 + 6) * 1
    /\ column = 0 /\ prevByte = ASCII_LF

\* C22: defineNVBitmap(w, h, bitmap) declares the size floor(w/8), ceil(h/8)
\* and sends after it exactly 8 * floor(w/8) * ceil(h/8) data bytes, for every
\* w and h: the number the two-image variant sends for an image of these
\* dimensions.
C22_NVDataMatchesHeader ==
    lastOp.op = "defineNVBitmap" =>
        LET w == lastOp.arg[1]
            h == lastOp.arg[2]
            x == out[4] + 256 * out[5]
            y == out[6] + 256 * out[7]
        IN  /\ x = w \div 8 /\ y = CeilDiv(h, 8)
            /\ Len(out) - 7 = 8 * x * y
            /\ Len(out) - 7 = Len(NVImage(Cur, w, h, lastOp.arg[3]).out) - 4

C5_Witness ==
    /\ lastOp = Op("write", ASCII_LF)
    /\ dotPrintTime = 2 /\ dotFeedTime = 1 /\ charHeight = 48
    /\ d = BYTE_TIME + (charHeight + lineSpacing) * dotFeedTime
    /\ column = 0 /\ prevByte = ASCII_LF

\* C6: from column = 0 with maxColumn = 32, k < maxColumn characters, none of
\* them newline or carriage return, leave column = k and prevByte = the last
\* character, and are charged k byte-times in all.
C6_PlainTextRun ==
    (lastOp.op = "write" /\ nText >= 1 /\ nText < maxColumn /\ plain) =>
        /\ column = nText
        /\ prevByte = lastOp.arg
        /\ charged = nText * BYTE_TIME

\* C9: hasPaper() polls at most 10 times with a 100 ms wait after each empty
\* poll and never stalls; with no answer it returns "no paper" after exactly
\* 10 polls; with an answer at poll i <= 10 it polls no more and returns
\* "paper" exactly when bit 0x04 of the answer is clear.
C9_PaperPoll ==
    /\ polls <= 10 /\ waits <= 10
    /\ hpPc = "poll" => (polls = hpI /\ waits = hpI /\ status = -1)
    /\ hpPc = "return" => (status \in 0..255 /\ waits = polls - 1)
    /\ hpPc # "idle" => ENABLED (PollRead \/ PollWait \/ HasPaperReturn)
    /\ (lastOp.op = "hasPaper" /\ hpPc = "idle") =>
          IF status = -1
          THEN polls = 10 /\ waits = 10 /\ hpResult = "no paper"
          ELSE /\ polls <= 10 /\ waits = polls - 1
               /\ hpResult = IF (status \div 4) % 2 = 0 THEN "paper" ELSE "no paper"

C9_Witness ==
    /\ lastOp.op = "hasPaper" /\ hpPc = "idle"
    /\ status = -1 /\ polls = 10 /\ waits = 10 /\ hpResult = "no paper"

====
